---- MODULE Spec2Model ----
(***************************************************************************)
(* Model of analysis.py: the exhibitor pipeline of main()                  *)
(* (load_data -> process_data -> create_visualizations -> create_app)      *)
(* and the Dash callbacks that create_app registers.                       *)
(*                                                                         *)
(* Strings that the code orders or case-folds (company_name, the type of   *)
(* a contact entry) are sequences of code points, so that Python's ordinal *)
(* string comparison and str.lower() are computed, not assumed.  Strings   *)
(* the code only tests for equality or truthiness are TLA+ strings.        *)
(* A Python dict with optional keys is a record whose DOMAIN holds the     *)
(* keys that are present.                                                  *)
(***************************************************************************)
EXTENDS Integers, Sequences, FiniteSets, TLC

VARIABLES
    pc,         \* position of main(): "start", "loaded", "processed", "visualized", "serving", "failed"
    error,      \* the exception that ended main(), "" when none
    file,       \* content of final_exhibitor_info_translated.json (a JSON array)
    data,       \* load_data()'s return value
    processed_data,  \* process_data()'s return value
    viz_data,   \* create_visualizations()'s return value
    selected_category_exhibitors,  \* app.selected_category_exhibitors: company_name -> exhibitor
    selected_pavilion_exhibitors,  \* app.selected_pavilion_exhibitors: company_name -> exhibitor
    clients,    \* the browser sessions that have the page open
    clickData,  \* per client and chart: <<>> (None) or <<y>>, the label of the bar clicked last
    language,   \* per client: the 'language' of language-store
    children,   \* per client and chart: the content of the click-output Div and the button style
    pending,    \* per client: the display callbacks Dash has yet to run for it
    reruns,     \* per client: the charts whose drill-down was recomputed for its last language click
    response    \* the last callback run: its name, client, arguments and return value

pipeline_vars == <<pc, error, file, data, processed_data, viz_data>>
app_vars == <<selected_category_exhibitors, selected_pavilion_exhibitors, clients,
              clickData, language, children, pending, reruns, response>>
vars == <<pipeline_vars, app_vars>>

-----------------------------------------------------------------------------
(* Python primitives used by the code *)

\* dict.get(k, default)
Get(d, k, default) == IF k \in DOMAIN d THEN d[k] ELSE default

\* str.lower() on a string of code points (ASCII letters)
Lower(s) == [i \in DOMAIN s |-> IF s[i] \in 65..90 THEN s[i] + 32 ELSE s[i]]

\* str < str: ordinal comparison, code point by code point, a proper prefix first
StrLess(a, b) ==
    LET n == IF Len(a) < Len(b) THEN Len(a) ELSE Len(b)
        diff == {i \in 1..n : a[i] # b[i]}
    IN IF diff = {}
       THEN Len(a) < Len(b)
       ELSE LET k == CHOOSE i \in diff : \A j \in diff : i <= j
            IN a[k] < b[k]

\* the literals 'website' and 'Unknown'
STR_website == <<119, 101, 98, 115, 105, 116, 101>>
STR_Unknown == <<85, 110, 107, 110, 111, 119, 110>>

\* list.extend over the first n lists of a column
RECURSIVE FlattenUpTo(_, _)
FlattenUpTo(lists, n) ==
    IF n = 0 THEN <<>> ELSE FlattenUpTo(lists, n - 1) \o lists[n]

Flatten(lists) == FlattenUpTo(lists, Len(lists))

\* x evaluated once, then Op applied to its value
Let(x, Op(_)) == CHOOSE r \in {Op(v) : v \in {x}} : TRUE

\* the elements of s at the positions in idx, in the order of s
Pick(s, idx) ==
    [k \in 1..Cardinality(idx) |->
        s[CHOOSE i \in idx : Cardinality({j \in idx : j <= i}) = k]]

\* the keys of a Counter / of value_counts(): distinct values, first seen first
FirstSeen(column) ==
    Let(column, LAMBDA s :
        Let({i \in DOMAIN s : \A j \in 1..(i - 1) : s[j] # s[i]}, LAMBDA idx : Pick(s, idx)))

Occurrences(x, s) == Cardinality({i \in DOMAIN s : s[i] = x})

\* collections.Counter(s): (key, count) items in insertion order
Counter(column) ==
    Let(column, LAMBDA s :
        Let(FirstSeen(s), LAMBDA keys :
            [i \in DOMAIN keys |-> [key |-> keys[i], count |-> Occurrences(keys[i], s)]]))

\* a stable sort: s reordered so that before(x, y) puts x first, and of two
\* elements neither of which is before the other the earlier in s comes first
StableSort(column, before(_, _)) ==
    Let(column, LAMBDA s :
        Let([i \in DOMAIN s |-> Cardinality({j \in DOMAIN s :
                                    \/ before(s[j], s[i])
                                    \/ ~before(s[i], s[j]) /\ j < i})],
            LAMBDA rank : [k \in DOMAIN s |-> s[CHOOSE i \in DOMAIN s : rank[i] = k - 1]]))

\* sorted(items, key=count, reverse=True): equal counts keep their insertion order
SortByCountDesc(items) == StableSort(items, LAMBDA x, y : x.count > y.count)

\* Counter.most_common(n), with the mutant that keeps one item more
most_common_one_more(counter, n) ==
    LET s == SortByCountDesc(counter)
    IN SubSeq(s, 1, IF Len(s) < n + 1 THEN Len(s) ELSE n + 1)

most_common(counter, n) ==
    LET s == SortByCountDesc(counter)
    IN SubSeq(s, 1, IF Len(s) < n THEN Len(s) ELSE n)

\* sorted(exhibitors, key=lambda x: x['company_name']), with the mutant that
\* folds the case of the key
SortByCompanyNameLower(exhibitors) ==
    StableSort(exhibitors, LAMBDA x, y : StrLess(Lower(x.company_name), Lower(y.company_name)))

SortByCompanyName(exhibitors) ==
    StableSort(exhibitors, LAMBDA x, y : StrLess(x.company_name, y.company_name))

SeqToSet(s) == {s[i] : i \in DOMAIN s}

-----------------------------------------------------------------------------
(* process_data *)

\* the contacts the generator of line 28-29 yields from
WebsiteContacts(exhibitor) ==
    SelectSeq(Get(exhibitor, "contact_details", <<>>),
              LAMBDA contact : Lower(Get(contact, "type", <<>>)) = STR_website)

\* contact['url'] of the first website contact raises KeyError without the key
ProcessRaises(exhibitor) ==
    /\ WebsiteContacts(exhibitor) # <<>>
    /\ "url" \notin DOMAIN WebsiteContacts(exhibitor)[1]

website_url(exhibitor) ==
    IF WebsiteContacts(exhibitor) = <<>> THEN ""
    ELSE WebsiteContacts(exhibitor)[1].url

\* line 36, with the mutant that reads the English description
has_description_en(exhibitor) == IF Get(exhibitor, "description", "") # "" THEN 1 ELSE 0

has_description(exhibitor) == IF Get(exhibitor, "description_ko", "") # "" THEN 1 ELSE 0

\* the item built for one exhibitor
ProcessItem(exhibitor) ==
    [company_name       |-> Get(exhibitor, "company_name", STR_Unknown),
     booth_location     |-> Get(exhibitor, "booth_location", "Unknown"),
     pavilion           |-> Get(exhibitor, "pavilion", "None"),
     categories_count   |-> Len(Get(exhibitor, "categories", <<>>)),
     has_description    |-> has_description(exhibitor),
     social_media_count |-> Len(Get(exhibitor, "social_media", <<>>)),
     description        |-> Get(exhibitor, "description", ""),
     description_ko     |-> Get(exhibitor, "description_ko", ""),
     social_media       |-> Get(exhibitor, "social_media", <<>>),
     contact_details    |-> Get(exhibitor, "contact_details", <<>>),
     website            |-> website_url(exhibitor),
     categories         |-> Get(exhibitor, "categories", <<>>)]

process_data(d) == [i \in DOMAIN d |-> ProcessItem(d[i])]

-----------------------------------------------------------------------------
(* create_visualizations *)

TopCategories == 30
OthersRealCount == 507

all_categories(df) == Flatten([i \in DOMAIN df |-> df[i].categories])

top_30_categories(df) == most_common(Counter(all_categories(df)), TopCategories)

top_30_category_names(df) ==
    Let(top_30_categories(df), LAMBDA top : {top[i].key : i \in DOMAIN top})

\* the test of lines 73-75 and 351-353, with the mutant that also takes an
\* exhibitor one of whose categories is outside the top names
InOthers_some_outside(exhibitor, top_names) ==
    \/ exhibitor.categories = <<>>
    \/ SeqToSet(exhibitor.categories) \ top_names # {}

InOthers(exhibitor, top_names) == SeqToSet(exhibitor.categories) \cap top_names = {}

\* lines 71-76, with the mutant that counts the categories outside the top 30
\* instead of the exhibitors
others_count_memberships(df) ==
    Let(top_30_category_names(df), LAMBDA names :
        Cardinality({i \in DOMAIN all_categories(df) : all_categories(df)[i] \notin names}))

others_count(df) ==
    Let(top_30_category_names(df), LAMBDA names :
        Cardinality({i \in DOMAIN df : InOthers(df[i], names)}))

\* lines 79-91: the table, then the displayed count of every 'Others' row
\* overwritten when 'Artificial Intelligence' is a key of top_30_categories
OverwriteOthers(table, top) ==
    LET ai == {i \in DOMAIN top : top[i].key = "Artificial Intelligence"}
    IN IF ai = {} THEN table
       ELSE [i \in DOMAIN table |->
                IF table[i].category = "Others"
                THEN [table[i] EXCEPT !.count = top[CHOOSE j \in ai : TRUE].count]
                ELSE table[i]]

top_categories(df) ==
    Let(top_30_categories(df), LAMBDA top :
        Let([i \in DOMAIN top |-> [category |-> top[i].key, count |-> top[i].count]]
                \o <<[category |-> "Others", count |-> others_count(df)]>>,
            LAMBDA table : OverwriteOthers(table, top)))

MaxPavilions == 15

\* Series.value_counts() and sort_values('count', ascending=False) order by
\* count, most frequent first, with pandas' default sort kind, which does not
\* fix the order of equal counts: every order of the rows that is
\* non-increasing in count is a possible outcome, and head(k) keeps the
\* first k rows of it.
RECURSIVE SortedHeads(_, _)
SortedHeads(items, k) ==
    IF k = 0 \/ items = {} THEN {<<>>}
    ELSE UNION {{<<e>> \o rest : rest \in SortedHeads(items \ {e}, k - 1)} :
                e \in {x \in items : \A y \in items : x.count >= y.count}}

\* value_counts() of a column: one (key, count) row per observed value
value_counts(column) == SeqToSet(Counter(column))

\* lines 97-100: the possible pavilion tables, with the mutant that skips the
\* filter of line 99
pavilion_counts_with_none(df) ==
    LET vc == value_counts([i \in DOMAIN df |-> df[i].pavilion])
        kept == {[pavilion |-> r.key, count |-> r.count] : r \in vc}
    IN SortedHeads(kept, MaxPavilions)

pavilion_counts(df) ==
    LET vc == value_counts([i \in DOMAIN df |-> df[i].pavilion])
        kept == {[pavilion |-> r.key, count |-> r.count] : r \in {x \in vc : x.key # "None"}}
    IN SortedHeads(kept, MaxPavilions)

\* lines 103-105: the possible description tables, 1 mapped to 'Yes', 0 to 'No'
description_counts(df) ==
    LET vc == value_counts([i \in DOMAIN df |-> df[i].has_description])
        rows == {[has_description |-> IF r.key = 1 THEN "Yes" ELSE "No",
                  count |-> r.count] : r \in vc}
    IN SortedHeads(rows, Cardinality(rows))

\* sort_values('social_media_count'): ascending, the keys are distinct
RECURSIVE SortBySocialMediaCount(_)
SortBySocialMediaCount(rows) ==
    IF rows = {} THEN <<>>
    ELSE LET m == CHOOSE x \in rows :
                      \A y \in rows : x.social_media_count <= y.social_media_count
         IN <<m>> \o SortBySocialMediaCount(rows \ {m})

\* lines 108-110
social_media_dist(df) ==
    LET vc == value_counts([i \in DOMAIN df |-> df[i].social_media_count])
    IN SortBySocialMediaCount({[social_media_count |-> r.key, count |-> r.count] : r \in vc})

\* pd.DataFrame([]) has no columns: df['categories'] raises KeyError (line 60)
VisualizeRaises(pd) == pd = <<>>

\* the dict returned at lines 112-120, for one outcome of the pandas sorts
create_visualizations(pd, pavilions, descriptions) ==
    [df                    |-> pd,
     top_categories        |-> top_categories(pd),
     top_30_category_names |-> top_30_category_names(pd),
     pavilion_counts       |-> pavilions,
     description_counts    |-> descriptions,
     social_media_dist     |-> social_media_dist(pd),
     others_real_count     |-> OthersRealCount]

-----------------------------------------------------------------------------
(* main(), up to create_visualizations *)

MainLoad ==
    /\ pc = "start"
    /\ data' = file
    /\ pc' = "loaded"
    /\ UNCHANGED <<error, file, processed_data, viz_data, app_vars>>

MainProcess ==
    /\ pc = "loaded"
    /\ IF \E i \in DOMAIN data : ProcessRaises(data[i])
       THEN /\ pc' = "failed"
            /\ error' = "KeyError: 'url'"
            /\ UNCHANGED processed_data
       ELSE /\ pc' = "processed"
            /\ processed_data' = process_data(data)
            /\ UNCHANGED error
    /\ UNCHANGED <<file, data, viz_data, app_vars>>

MainVisualize ==
    /\ pc = "processed"
    /\ IF VisualizeRaises(processed_data)
       THEN /\ pc' = "failed"
            /\ error' = "KeyError: 'categories'"
            /\ UNCHANGED viz_data
       ELSE /\ pc' = "visualized"
            /\ \E pavilions \in pavilion_counts(processed_data),
                  descriptions \in description_counts(processed_data) :
                  viz_data' = create_visualizations(processed_data, pavilions, descriptions)
            /\ UNCHANGED error
    /\ UNCHANGED <<file, data, processed_data, app_vars>>

-----------------------------------------------------------------------------
(* create_app: the layout's initial content and the callbacks *)

Charts == {"category", "pavilion"}

\* html.Div(id='...-click-output') and the button style of lines 200-201, 234-235
InitialChildren == [content |-> "empty", display |-> "none"]

\* the return value of lines 335 and 442
Placeholder == [content |-> "placeholder", display |-> "none"]

\* the return value of lines 398-428 and 492-522: one table row (with its
\* checkbox) per filtered exhibitor, and the button shown
Table(selected, filtered_exhibitors, description_field) ==
    [content |-> "table", display |-> "block", selected |-> selected,
     rows |-> filtered_exhibitors, description_field |-> description_field]

\* {exhibitor['company_name']: exhibitor for exhibitor in filtered_exhibitors}:
\* of two exhibitors with one name the later one stays
ExhibitorsByName(filtered_exhibitors) ==
    [name \in {filtered_exhibitors[i].company_name : i \in DOMAIN filtered_exhibitors} |->
        filtered_exhibitors[CHOOSE i \in DOMAIN filtered_exhibitors :
            /\ filtered_exhibitors[i].company_name = name
            /\ \A j \in DOMAIN filtered_exhibitors :
                  filtered_exhibitors[j].company_name = name => j <= i]]

\* lines 344-360, with the mutant that tests the first category only
filter_category_first(viz, selected_category) ==
    IF selected_category = "Others"
    THEN SelectSeq(viz.df, LAMBDA exhibitor : InOthers(exhibitor, viz.top_30_category_names))
    ELSE SelectSeq(viz.df, LAMBDA exhibitor :
            exhibitor.categories # <<>> /\ exhibitor.categories[1] = selected_category)

filter_category(viz, selected_category) ==
    IF selected_category = "Others"
    THEN SelectSeq(viz.df, LAMBDA exhibitor : InOthers(exhibitor, viz.top_30_category_names))
    ELSE SelectSeq(viz.df, LAMBDA exhibitor : selected_category \in SeqToSet(exhibitor.categories))

\* lines 451-454, with the mutant that repeats the test of line 99
filter_pavilion_not_none(viz, selected_pavilion) ==
    SelectSeq(viz.df, LAMBDA exhibitor : exhibitor.pavilion # "None")

filter_pavilion(viz, selected_pavilion) ==
    SelectSeq(viz.df, LAMBDA exhibitor : exhibitor.pavilion = selected_pavilion)

\* lines 369 and 463
description_field(current_language) ==
    IF current_language = "ko" THEN "description_ko" ELSE "description"

\* display_category_click_data(clickData, language_data) run for client c,
\* with the mutant that adds the result to the slot (dict.update)
DisplayCategory_update(c, cd) ==
    /\ IF cd = <<>>
       THEN /\ children' = [children EXCEPT ![c].category = Placeholder]
            /\ UNCHANGED selected_category_exhibitors
       ELSE LET filtered_exhibitors == SortByCompanyName(filter_category(viz_data, cd[1]))
                new == ExhibitorsByName(filtered_exhibitors)
            IN /\ selected_category_exhibitors' =
                      [name \in DOMAIN selected_category_exhibitors \cup DOMAIN new |->
                          IF name \in DOMAIN new THEN new[name]
                          ELSE selected_category_exhibitors[name]]
               /\ children' = [children EXCEPT ![c].category =
                      Table(cd[1], filtered_exhibitors, description_field(language[c]))]
    /\ response' = [callback |-> "display_category_click_data", client |-> c,
                    clickData |-> cd, out |-> children'[c].category]
    /\ UNCHANGED selected_pavilion_exhibitors

DisplayCategory(c, cd) ==
    /\ IF cd = <<>>
       THEN /\ children' = [children EXCEPT ![c].category = Placeholder]
            /\ UNCHANGED selected_category_exhibitors
       ELSE LET filtered_exhibitors == SortByCompanyName(filter_category(viz_data, cd[1]))
            IN /\ selected_category_exhibitors' = ExhibitorsByName(filtered_exhibitors)
               /\ children' = [children EXCEPT ![c].category =
                      Table(cd[1], filtered_exhibitors, description_field(language[c]))]
    /\ response' = [callback |-> "display_category_click_data", client |-> c,
                    clickData |-> cd, out |-> children'[c].category]
    /\ UNCHANGED selected_pavilion_exhibitors

\* display_pavilion_click_data(clickData, language_data) run for client c,
\* with the mutant that empties the slots when there is no click
DisplayPavilion_reset(c, cd) ==
    /\ IF cd = <<>>
       THEN /\ children' = [children EXCEPT ![c].pavilion = Placeholder]
            /\ selected_pavilion_exhibitors' = <<>>
            /\ selected_category_exhibitors' = <<>>
       ELSE LET filtered_exhibitors == SortByCompanyName(filter_pavilion(viz_data, cd[1]))
            IN /\ selected_pavilion_exhibitors' = ExhibitorsByName(filtered_exhibitors)
               /\ children' = [children EXCEPT ![c].pavilion =
                      Table(cd[1], filtered_exhibitors, description_field(language[c]))]
               /\ UNCHANGED selected_category_exhibitors
    /\ response' = [callback |-> "display_pavilion_click_data", client |-> c,
                    clickData |-> cd, out |-> children'[c].pavilion]

DisplayPavilion(c, cd) ==
    /\ IF cd = <<>>
       THEN /\ children' = [children EXCEPT ![c].pavilion = Placeholder]
            /\ UNCHANGED selected_pavilion_exhibitors
       ELSE LET filtered_exhibitors == SortByCompanyName(filter_pavilion(viz_data, cd[1]))
            IN /\ selected_pavilion_exhibitors' = ExhibitorsByName(filtered_exhibitors)
               /\ children' = [children EXCEPT ![c].pavilion =
                      Table(cd[1], filtered_exhibitors, description_field(language[c]))]
    /\ response' = [callback |-> "display_pavilion_click_data", client |-> c,
                    clickData |-> cd, out |-> children'[c].pavilion]
    /\ UNCHANGED selected_category_exhibitors

\* the State values of the checkboxes a client has on screen: one per table
\* row, [] when unchecked and [company_name] when checked
CheckboxValues(shown) ==
    IF shown.content # "table" THEN {<<>>}
    ELSE {[i \in DOMAIN shown.rows |-> IF i \in checked THEN <<shown.rows[i].company_name>> ELSE <<>>] :
            checked \in SUBSET DOMAIN shown.rows}

\* lines 536-539 and 577-580
selected_companies(checkbox_values) ==
    LET checked == SelectSeq(checkbox_values, LAMBDA values : values # <<>>)
    IN [i \in DOMAIN checked |-> checked[i][1]]

\* lines 545-548 and 586-589, with the mutant that looks each name up once
\* and the mutant that gives nothing when a name is not in the slot
selected_data_all_or_none(companies, selected_exhibitors) ==
    IF \A i \in DOMAIN companies : companies[i] \in DOMAIN selected_exhibitors
    THEN [i \in DOMAIN companies |-> selected_exhibitors[companies[i]]]
    ELSE <<>>

selected_data_once(companies, selected_exhibitors) ==
    LET found == FirstSeen(SelectSeq(companies,
                    LAMBDA company_name : company_name \in DOMAIN selected_exhibitors))
    IN [i \in DOMAIN found |-> selected_exhibitors[found[i]]]

selected_data(companies, selected_exhibitors) ==
    LET found == SelectSeq(companies, LAMBDA company_name : company_name \in DOMAIN selected_exhibitors)
    IN [i \in DOMAIN found |-> selected_exhibitors[found[i]]]

\* the columns kept at lines 558 and 599, in this order
ExportColumns ==
    <<"company_name", "booth_location", "pavilion", "description", "description_ko", "website">>

ExportRow(exhibitor) == [i \in DOMAIN ExportColumns |-> exhibitor[ExportColumns[i]]]

NoFile == [file |-> FALSE]

\* the body shared by download_selected_category_data and
\* download_selected_pavilion_data: None, or the sheet sent
download_selected(n_clicks, checkbox_values, selected_exhibitors) ==
    IF n_clicks = 0 THEN NoFile
    ELSE IF selected_companies(checkbox_values) = <<>> THEN NoFile
    ELSE LET rows == selected_data(selected_companies(checkbox_values), selected_exhibitors)
         IN IF rows = <<>> THEN NoFile
            ELSE [file |-> TRUE, columns |-> ExportColumns,
                  rows |-> [i \in DOMAIN rows |-> ExportRow(rows[i])]]

-----------------------------------------------------------------------------
(* the inputs *)

\* the longest input file of a pipeline run, and of a dashboard run
MaxRecords == 3
MaxDashboardRecords == 2

Datasets(universe, n) == UNION {[1..k -> universe] : k \in 0..n}

\* company names 'B', 'a' and contact types 'Website', 'email'
NameB == <<66>>
NameA == <<97>>
TypeWebsite == <<87, 101, 98, 115, 105, 116, 101>>
TypeEmail == <<101, 109, 97, 105, 108>>

\* thirty category names, no two equal
Wide ==
    <<"Artificial Intelligence", "c02", "c03", "c04", "c05", "c06", "c07", "c08", "c09", "c10",
      "c11", "c12", "c13", "c14", "c15", "c16", "c17", "c18", "c19", "c20",
      "c21", "c22", "c23", "c24", "c25", "c26", "c27", "c28", "c29", "c30">>

\* raw exhibitors of the pipeline runs: every optional key missing somewhere,
\* 29, 30 and more distinct categories, a contact entry without 'type', one
\* without 'url', a website entry after another entry
RawExhibitors ==
    {[company_name |-> NameB, booth_location |-> "100", pavilion |-> "P1",
      categories |-> <<"AI", "Cloud">>, description |-> "en", description_ko |-> "ko",
      social_media |-> <<"tw">>,
      contact_details |-> <<[type |-> TypeWebsite, url |-> "http://b"]>>],
     [description |-> "en only"],
     [company_name |-> NameA, pavilion |-> "P2", categories |-> Wide, description_ko |-> ""],
     [pavilion |-> "None", categories |-> SubSeq(Wide, 1, 29), description_ko |-> "ko"],
     [company_name |-> NameB, pavilion |-> "P2", categories |-> <<"Cloud", "Cloud">>,
      social_media |-> <<"tw", "fb">>, contact_details |-> <<[url |-> "http://u"]>>],
     [company_name |-> NameA,
      contact_details |-> <<[type |-> TypeEmail, url |-> "mail"], [type |-> STR_website]>>],
     [categories |-> <<>>, description_ko |-> "ko2",
      contact_details |-> <<[type |-> TypeEmail, url |-> "mail"],
                            [type |-> TypeWebsite, url |-> "http://w1"],
                            [type |-> STR_website, url |-> "http://w2"]>>]}

\* raw exhibitors of the dashboard runs: two share a name, one names a
\* category twice, one has no key but booth_location, one has thirty categories
Exhibitors ==
    {[company_name |-> NameB, booth_location |-> "100", pavilion |-> "P1",
      categories |-> <<"AI", "Cloud">>, description |-> "en", description_ko |-> "ko",
      contact_details |-> <<[type |-> TypeWebsite, url |-> "http://b"]>>],
     [booth_location |-> "300"],
     [company_name |-> NameB, booth_location |-> "400", pavilion |-> "P2",
      categories |-> <<"Cloud", "Cloud">>],
     [company_name |-> NameA, pavilion |-> "P2", categories |-> Wide]}

\* the bars a run clicks, when the chart has them
CategoryKeys == {"Others", "AI", "Cloud"}

CategoryBars == {viz_data.top_categories[i].category : i \in DOMAIN viz_data.top_categories}
PavilionBars == {viz_data.pavilion_counts[i].pavilion : i \in DOMAIN viz_data.pavilion_counts}

NoViz == [df |-> <<>>]
NoResponse == [callback |-> "none"]

InitWith(datasets, sessions) ==
    /\ pc = "start"
    /\ error = ""
    /\ file \in datasets
    /\ data = <<>>
    /\ processed_data = <<>>
    /\ viz_data = NoViz
    /\ selected_category_exhibitors = <<>>
    /\ selected_pavilion_exhibitors = <<>>
    /\ clients = sessions
    /\ clickData = [c \in sessions |-> [category |-> <<>>, pavilion |-> <<>>]]
    /\ language = [c \in sessions |-> "ko"]
    /\ children = [c \in sessions |-> [category |-> InitialChildren, pavilion |-> InitialChildren]]
    /\ pending = [c \in sessions |-> {}]
    /\ reruns = [c \in sessions |-> <<>>]
    /\ response = NoResponse

Init == InitWith(Datasets(Exhibitors, MaxDashboardRecords), {1})

InitPipeline == InitWith(Datasets(RawExhibitors, MaxRecords), {1})

\* the most distinct pavilions of an input file of the pavilion runs
MaxPavilionNames == 16

PavilionNames ==
    <<"P01", "P02", "P03", "P04", "P05", "P06", "P07", "P08", "P09", "P10",
      "P11", "P12", "P13", "P14", "P15", "P16", "P17", "P18", "P19", "P20">>

\* the records of the first k pavilions of a pavilion file: the k-th pavilion
\* has (k + 1) \div 2 records, so that pavilions tie in pairs
PavilionRecordsUpTo(k) == ((k + 1) \div 2) * ((k + 2) \div 2)

\* an input file with n pavilions, followed by none records without the
\* pavilion key
PavilionFile(n, none) ==
    [i \in 1..(PavilionRecordsUpTo(n) + none) |->
        IF i > PavilionRecordsUpTo(n) THEN [booth_location |-> "0"]
        ELSE [pavilion |-> PavilionNames[CHOOSE k \in 1..n :
                              PavilionRecordsUpTo(k - 1) < i /\ i <= PavilionRecordsUpTo(k)]]]

\* files with fewer pavilions than the table holds, as many, and more; with
\* and without records of no pavilion, which outnumber those of any pavilion
PavilionFiles ==
    {PavilionFile(n, none) : n \in {2} \cup (MaxPavilions - 1)..MaxPavilionNames,
                             none \in {0, MaxPavilionNames}}

InitPavilions == InitWith(PavilionFiles, {1})

\* the raw exhibitors of the three-record example: categories ['AI', 'Cloud'],
\* ['AI'], and no categories key
ExampleExhibitors ==
    {[company_name |-> NameB, categories |-> <<"AI", "Cloud">>],
     [company_name |-> NameA, categories |-> <<"AI">>],
     [company_name |-> NameA, booth_location |-> "300"]}

InitExample == InitWith(Datasets(ExampleExhibitors, MaxRecords), {1})

\* the input files of the runs with two clients.  One has no pavilion: its
\* category chart has the bars 'AI', of two names, and 'Others', of a second
\* record of one of the names.  The other has one pavilion and no record
\* outside the top categories.
SharedFiles ==
    {<<[company_name |-> NameB, booth_location |-> "100", categories |-> <<"AI">>],
       [company_name |-> NameA, categories |-> <<"AI">>],
       [company_name |-> NameB, booth_location |-> "400"]>>,
     <<[company_name |-> NameB, booth_location |-> "100", pavilion |-> "P1",
        categories |-> <<"c02">>]>>}

\* two browser sessions on the one server process
Sessions == {1, 2}

InitTwoClients == InitWith(SharedFiles, Sessions)

\* thirty category names without 'Artificial Intelligence'
WideWithoutAI == SubSeq(Wide, 2, 30) \o <<"c31">>

\* raw exhibitors of the dashboard runs on a dataset that has a category
\* named 'Others': with and without 'Artificial Intelligence', without
\* categories, and with thirty categories that keep a later one out of the
\* top 30
OthersExhibitors ==
    {[company_name |-> NameB, pavilion |-> "P1",
      categories |-> <<"Artificial Intelligence", "Others">>],
     [company_name |-> NameA, pavilion |-> "P1", categories |-> <<"Artificial Intelligence">>],
     [company_name |-> NameA, booth_location |-> "300"],
     [company_name |-> NameB, pavilion |-> "P2", categories |-> WideWithoutAI]}

InitOthers == InitWith(Datasets(OthersExhibitors, MaxDashboardRecords), {1})

-----------------------------------------------------------------------------
(* main(), lines 687-694: create_app and the server started; every client  *)
(* loads the page, and Dash owes it the initial call of both display       *)
(* callbacks (prevent_initial_call=False)                                  *)

MainServe ==
    /\ pc = "visualized"
    /\ pc' = "serving"
    /\ selected_category_exhibitors' = <<>>
    /\ selected_pavilion_exhibitors' = <<>>
    /\ pending' = [c \in clients |-> Charts]
    /\ UNCHANGED <<error, file, data, processed_data, viz_data, clients, clickData,
                   language, children, reruns, response>>

(* the callbacks, one action per trigger *)

\* a click on a bar of the category chart: clickData changes and Dash runs
\* display_category_click_data with it
ClickCategoryBar(c) ==
    /\ pc = "serving"
    /\ \E y \in CategoryBars \cap CategoryKeys :
          /\ clickData' = [clickData EXCEPT ![c].category = <<y>>]
          /\ DisplayCategory(c, <<y>>)
    /\ pending' = [pending EXCEPT ![c] = @ \ {"category"}]
    /\ UNCHANGED <<pipeline_vars, clients, language, reruns>>

ClickPavilionBar(c) ==
    /\ pc = "serving"
    /\ \E y \in PavilionBars :
          /\ clickData' = [clickData EXCEPT ![c].pavilion = <<y>>]
          /\ DisplayPavilion(c, <<y>>)
    /\ pending' = [pending EXCEPT ![c] = @ \ {"pavilion"}]
    /\ UNCHANGED <<pipeline_vars, clients, language, reruns>>

\* the initial call, and the call after language-store changed: the callback
\* runs with the clickData the client holds; with the mutant in which the
\* call stays owed
RunCategoryDisplay_again(c) ==
    /\ pc = "serving"
    /\ "category" \in pending[c]
    /\ DisplayCategory(c, clickData[c].category)
    /\ reruns' = IF clickData[c].category = <<>> THEN reruns
                 ELSE [reruns EXCEPT ![c] = Append(@, "category")]
    /\ UNCHANGED <<pipeline_vars, clients, language, clickData, pending>>

RunCategoryDisplay(c) ==
    /\ pc = "serving"
    /\ "category" \in pending[c]
    /\ DisplayCategory(c, clickData[c].category)
    /\ pending' = [pending EXCEPT ![c] = @ \ {"category"}]
    /\ reruns' = IF clickData[c].category = <<>> THEN reruns
                 ELSE [reruns EXCEPT ![c] = Append(@, "category")]
    /\ UNCHANGED <<pipeline_vars, clients, language, clickData>>

RunPavilionDisplay(c) ==
    /\ pc = "serving"
    /\ "pavilion" \in pending[c]
    /\ DisplayPavilion(c, clickData[c].pavilion)
    /\ pending' = [pending EXCEPT ![c] = @ \ {"pavilion"}]
    /\ reruns' = IF clickData[c].pavilion = <<>> THEN reruns
                 ELSE [reruns EXCEPT ![c] = Append(@, "pavilion")]
    /\ UNCHANGED <<pipeline_vars, clients, language, clickData>>

\* toggle_language_category / toggle_language_pavilion: a click on one of the
\* two language buttons of a table on screen; language-store is an Input of
\* both display callbacks
ToggleLanguage(c, chart) ==
    /\ pc = "serving"
    /\ children[c][chart].content = "table"
    /\ \E triggered_id \in {"ko-button", "en-button"} :
          /\ language' = [language EXCEPT ![c] = IF triggered_id = "ko-button" THEN "ko" ELSE "en"]
          /\ response' = [callback |-> "toggle_language", client |-> c, chart |-> chart,
                          out |-> language'[c]]
    /\ pending' = [pending EXCEPT ![c] = Charts]
    /\ reruns' = [reruns EXCEPT ![c] = <<>>]
    /\ UNCHANGED <<pipeline_vars, clients, clickData, children,
                   selected_category_exhibitors, selected_pavilion_exhibitors>>

\* download_selected_category_data / download_selected_pavilion_data: Dash
\* calls them on a click of the button only (prevent_initial_call=True), so
\* n_clicks >= 1; the checkbox values are those of the table the client has
\* on screen
DownloadSelected(c, chart) ==
    /\ pc = "serving"
    /\ \E n_clicks \in {1}, checkbox_values \in CheckboxValues(children[c][chart]) :
          response' = [callback |-> "download_selected", client |-> c, chart |-> chart,
                       n_clicks |-> n_clicks, checkbox_values |-> checkbox_values,
                       out |-> download_selected(n_clicks, checkbox_values,
                                  IF chart = "category" THEN selected_category_exhibitors
                                  ELSE selected_pavilion_exhibitors)]
    /\ UNCHANGED <<pipeline_vars, clients, clickData, language, children, pending, reruns,
                   selected_category_exhibitors, selected_pavilion_exhibitors>>

Next ==
    \/ MainLoad
    \/ MainProcess
    \/ MainVisualize
    \/ MainServe
    \/ \E c \in clients : ClickCategoryBar(c)
    \/ \E c \in clients : ClickPavilionBar(c)
    \/ \E c \in clients : RunCategoryDisplay(c)
    \/ \E c \in clients : RunPavilionDisplay(c)
    \/ \E c \in clients, chart \in Charts : ToggleLanguage(c, chart)
    \/ \E c \in clients, chart \in Charts : DownloadSelected(c, chart)

Spec == Init /\ [][Next]_vars

\* main() alone, on more input files
NextPipeline == MainLoad \/ MainProcess \/ MainVisualize

SpecPipeline == InitPipeline /\ [][NextPipeline]_vars

\* the dashboard on datasets with a category named 'Others'
SpecOthers == InitOthers /\ [][Next]_vars

\* the dashboard with two clients, their callbacks interleaved
SpecTwoClients == InitTwoClients /\ [][Next]_vars

\* main() alone, on the files made of the records of the example
SpecExample == InitExample /\ [][NextPipeline]_vars

\* main() alone, on input files of many pavilions
SpecPavilions == InitPavilions /\ [][NextPipeline]_vars

-----------------------------------------------------------------------------
(* The claims *)

Visualized == pc \in {"visualized", "serving"}

\* the distinct category names of the dataset
DistinctCategories(df) == UNION {SeqToSet(df[i].categories) : i \in DOMAIN df}

\* what a selection on a chart is to match
Matches(chart, key, exhibitor) ==
    IF chart = "pavilion" THEN exhibitor.pavilion = key
    ELSE IF key = "Others"
         THEN \A k \in DOMAIN exhibitor.categories :
                 exhibitor.categories[k] \notin viz_data.top_30_category_names
         ELSE \E k \in DOMAIN exhibitor.categories : exhibitor.categories[k] = key

\* rows holds every matching record of the dataset as often as the dataset
\* does, and nothing else
ExactlyTheMatching(chart, key, rows) ==
    \A e \in SeqToSet(viz_data.df) \cup SeqToSet(rows) :
        Occurrences(e, rows) = IF Matches(chart, key, e) THEN Occurrences(e, viz_data.df) ELSE 0

\* the last callback run was a drill-down of this chart on a bar
DrillDown(chart) ==
    /\ response.callback = IF chart = "category" THEN "display_category_click_data"
                           ELSE "display_pavilion_click_data"
    /\ response.clickData # <<>>

\* C1: after create_visualizations every record either has a category of the
\* top-30 name set or is counted in others_count, never both, never neither:
\* others_count = total records - records with at least one top-30 category.
C1_OthersPartition ==
    Visualized =>
        LET df == viz_data.df
            inTop == {i \in DOMAIN df : \E k \in DOMAIN df[i].categories :
                          df[i].categories[k] \in viz_data.top_30_category_names}
        IN others_count(df) = Len(df) - Cardinality(inTop)

\* C1 witness: a record all of whose categories fell outside the top 30 beside
\* a record with a top-30 category
C1_Witness ==
    /\ Visualized
    /\ \E i, j \in DOMAIN viz_data.df :
          /\ viz_data.df[i].categories # <<>>
          /\ InOthers(viz_data.df[i], viz_data.top_30_category_names)
          /\ ~InOthers(viz_data.df[j], viz_data.top_30_category_names)

\* C2: a click on the 'Others' bar yields as many records as the real 'Others'
\* count the aggregator publishes in viz_data['others_real_count'].
C2_OthersDrillDownMatchesPublishedCount ==
    (DrillDown("category") /\ response.clickData[1] = "Others") =>
        Len(response.out.rows) = viz_data.others_real_count

\* C3: for a category key other than 'Others' the drill-down returns exactly
\* the records whose category list contains the key.
C3_CategoryDrillDownExact ==
    (DrillDown("category") /\ response.clickData[1] # "Others") =>
        ExactlyTheMatching("category", response.clickData[1], response.out.rows)

\* C3 witness: a drill-down that returned a record with two distinct
\* categories and left a record of the dataset out
C3_Witness ==
    /\ DrillDown("category")
    /\ response.clickData[1] # "Others"
    /\ \E i \in DOMAIN response.out.rows :
          Cardinality(SeqToSet(response.out.rows[i].categories)) >= 2
    /\ Len(response.out.rows) < Len(viz_data.df)

\* C4: a click on a pavilion bar returns exactly the records whose pavilion
\* field equals the key, whatever their category lists.
C4_PavilionDrillDownExact ==
    DrillDown("pavilion") =>
        ExactlyTheMatching("pavilion", response.clickData[1], response.out.rows)

\* C4 witness: a pavilion drill-down that returned a record and left one out
C4_Witness ==
    /\ DrillDown("pavilion")
    /\ response.out.rows # <<>>
    /\ Len(response.out.rows) < Len(viz_data.df)

\* C5: the rows of every drill-down, 'Others' included, are the matching
\* records ordered by company_name ascending, code point by code point.
C5_DrillDownSorted ==
    \A chart \in Charts :
        DrillDown(chart) =>
            /\ \A i \in 1..(Len(response.out.rows) - 1) :
                  ~StrLess(response.out.rows[i + 1].company_name,
                           response.out.rows[i].company_name)
            /\ ExactlyTheMatching(chart, response.clickData[1], response.out.rows)

\* C5 witness: 'B' listed before 'a' although the dataset has 'a' first
C5_Witness ==
    /\ \E chart \in Charts : DrillDown(chart)
    /\ Len(response.out.rows) = 2
    /\ response.out.rows[1].company_name = NameB
    /\ response.out.rows[2].company_name = NameA
    /\ viz_data.df[1].company_name = NameA

\* the names checked at an export, in the order supplied
CheckedNames(checkbox_values) ==
    LET idx == {i \in DOMAIN checkbox_values : checkbox_values[i] # <<>>}
    IN [k \in 1..Cardinality(idx) |->
          checkbox_values[CHOOSE i \in idx : Cardinality({j \in idx : j <= i}) = k][1]]

SlotOf(chart) ==
    IF chart = "category" THEN selected_category_exhibitors ELSE selected_pavilion_exhibitors

\* the slot of the chart holds the result the client has on screen
OnScreenIsCurrent(c, chart) ==
    /\ children[c][chart].content = "table"
    /\ \A i \in DOMAIN children[c][chart].rows :
          /\ children[c][chart].rows[i].company_name \in DOMAIN SlotOf(chart)
          /\ SlotOf(chart)[children[c][chart].rows[i].company_name]
                \in SeqToSet(children[c][chart].rows)

\* C6: an export click with nothing checked, or before any drill-down on the
\* chart, returns no file; with N >= 1 rows of the current drill-down result
\* checked it returns N rows of the six columns, the i-th row for the i-th
\* checked name.
C6_Export ==
    response.callback = "download_selected" /\ response.n_clicks >= 1 =>
        LET c == response.client
            chart == response.chart
            names == CheckedNames(response.checkbox_values)
        IN /\ (names = <<>> \/ children[c][chart].content # "table") =>
                  response.out = NoFile
           /\ (names # <<>> /\ OnScreenIsCurrent(c, chart)) =>
                  /\ response.out.file
                  /\ response.out.columns =
                        <<"company_name", "booth_location", "pavilion",
                          "description", "description_ko", "website">>
                  /\ Len(response.out.rows) = Len(names)
                  /\ \A i \in DOMAIN names :
                        \E k \in DOMAIN children[c][chart].rows :
                           LET shown == children[c][chart].rows[k]
                           IN /\ shown.company_name = names[i]
                              /\ response.out.rows[i] =
                                    <<shown.company_name, shown.booth_location,
                                      shown.pavilion, shown.description,
                                      shown.description_ko, shown.website>>

\* C6 witness: an export of two checked rows that returned a file
C6_Witness ==
    /\ response.callback = "download_selected"
    /\ Len(CheckedNames(response.checkbox_values)) = 2
    /\ OnScreenIsCurrent(response.client, response.chart)
    /\ response.out.file

\* C7 as stated: 31 entries when the dataset has at least 31 distinct
\* categories, fewer than 31 otherwise, 'Others' last.
C7_AsStated ==
    Visualized =>
        LET table == viz_data.top_categories
            d == Cardinality(DistinctCategories(viz_data.df))
        IN /\ d >= 31 => Len(table) = 31
           /\ d < 31 => Len(table) < 31
           /\ table[Len(table)].category = "Others"

\* C7 as amended: 31 entries when the dataset has at least 30 distinct
\* categories, one more entry than distinct categories otherwise, 'Others' last.
C7_TableLength ==
    Visualized =>
        LET table == viz_data.top_categories
            d == Cardinality(DistinctCategories(viz_data.df))
        IN /\ d >= 30 => Len(table) = 31
           /\ d < 30 => Len(table) = d + 1
           /\ table[Len(table)].category = "Others"

\* C7 witness: a dataset of exactly 30 distinct categories, with 31 entries
C7_Witness ==
    /\ Visualized
    /\ Cardinality(DistinctCategories(viz_data.df)) = 30
    /\ Len(viz_data.top_categories) = 31

\* C8: on an empty input array the pipeline completes and all four tables
\* are empty.
C8_EmptyInputCompletes ==
    (file = <<>> /\ pc \notin {"start", "loaded", "processed"}) =>
        /\ pc # "failed"
        /\ viz_data.pavilion_counts = <<>>
        /\ viz_data.description_counts = <<>>
        /\ viz_data.social_media_dist = <<>>

\* C9: process_data fails on no raw record, whichever optional keys are missing.
C9_ProcessDataNeverFails ==
    ~(pc = "failed" /\ error = "KeyError: 'url'")

\* C10 as stated: the description table has exactly the two entries 'Yes' and
\* 'No', with the numbers of records with and without description_ko.
C10_AsStated ==
    Visualized =>
        LET table == viz_data.description_counts
            yes == Cardinality({i \in DOMAIN viz_data.df : viz_data.df[i].description_ko # ""})
        IN /\ Len(table) = 2
           /\ \E i \in DOMAIN table : table[i] = [has_description |-> "Yes", count |-> yes]
           /\ \E i \in DOMAIN table :
                 table[i] = [has_description |-> "No", count |-> Len(viz_data.df) - yes]

\* C10 as amended: the description table has one entry for 'Yes' and one for
\* 'No', except that an entry whose count would be zero is absent; the counts
\* are the numbers of records with and without description_ko.
C10_DescriptionSplit ==
    Visualized =>
        LET table == viz_data.description_counts
            yes == Cardinality({i \in DOMAIN viz_data.df : viz_data.df[i].description_ko # ""})
            no == Len(viz_data.df) - yes
            Entry(label, n) == Cardinality({i \in DOMAIN table :
                                   table[i] = [has_description |-> label, count |-> n]})
        IN /\ Entry("Yes", yes) = IF yes > 0 THEN 1 ELSE 0
           /\ Entry("No", no) = IF no > 0 THEN 1 ELSE 0
           /\ Len(table) = Entry("Yes", yes) + Entry("No", no)

\* C10 witness: every record has a Korean description and the table has the
\* single entry 'Yes'
C10_Witness ==
    /\ Visualized
    /\ Len(viz_data.df) >= 2
    /\ viz_data.description_counts =
          <<[has_description |-> "Yes", count |-> Len(viz_data.df)]>>

\* the number of records of a pavilion
PavilionSize(p) == Cardinality({i \in DOMAIN viz_data.df : viz_data.df[i].pavilion = p})

\* the pavilions of the dataset that the pavilion table does not list
Unlisted ==
    {viz_data.df[i].pavilion : i \in DOMAIN viz_data.df}
        \ {viz_data.pavilion_counts[k].pavilion : k \in DOMAIN viz_data.pavilion_counts}

\* C11: the pavilion table has at most 15 entries, never lists 'None', is
\* non-increasing in count, gives each listed pavilion its exact number of
\* records, and no unlisted pavilion but 'None' has more records than a
\* listed one.
C11_PavilionTable ==
    Visualized =>
        LET table == viz_data.pavilion_counts
        IN /\ Len(table) <= 15
           /\ \A i \in DOMAIN table :
                 /\ table[i].pavilion # "None"
                 /\ table[i].count = PavilionSize(table[i].pavilion)
                 /\ \A j \in DOMAIN table : i < j => table[i].count >= table[j].count
                 /\ \A p \in Unlisted \ {"None"} : PavilionSize(p) <= table[i].count

\* C11 witness: sixteen pavilions of which one is cut from a table of
\* fifteen, in a tie with the last one listed, and 'None' with more records
\* than any pavilion
C11_Witness ==
    /\ Visualized
    /\ Len(viz_data.pavilion_counts) = 15
    /\ \E p \in Unlisted \ {"None"} : PavilionSize(p) = viz_data.pavilion_counts[15].count
    /\ "None" \in Unlisted
    /\ PavilionSize("None") > viz_data.pavilion_counts[1].count

\* the entries of the category table before its last one
Ranked == SubSeq(viz_data.top_categories, 1, Len(viz_data.top_categories) - 1)

\* the synthetic entry, the last of the category table
OthersEntry == viz_data.top_categories[Len(viz_data.top_categories)]

\* the memberships of a category in the dataset
Memberships(category) == Occurrences(category, all_categories(viz_data.df))

\* the displayed count of the synthetic 'Others' entry
C12_DisplayedOthers ==
    /\ OthersEntry.category = "Others"
    /\ OthersEntry.count =
          IF \E i \in DOMAIN Ranked : Ranked[i].category = "Artificial Intelligence"
          THEN Memberships("Artificial Intelligence")
          ELSE Cardinality({i \in DOMAIN viz_data.df :
                               InOthers(viz_data.df[i], viz_data.top_30_category_names)})

\* what the overwrite leaves alone outside the table: the top-30 name set,
\* the records of an 'Others' drill-down and the rows of an export from it
C12_NamesAndRecords ==
    /\ viz_data.top_30_category_names = {Ranked[i].category : i \in DOMAIN Ranked}
    /\ (pc = "serving" /\ DrillDown("category") /\ response.clickData[1] = "Others") =>
          ExactlyTheMatching("category", "Others", response.out.rows)
    /\ (/\ pc = "serving"
        /\ response.callback = "download_selected"
        /\ response.chart = "category"
        /\ response.out.file
        /\ children[response.client].category.selected = "Others") =>
          \A i \in DOMAIN response.out.rows :
              \E k \in DOMAIN viz_data.df :
                  /\ InOthers(viz_data.df[k], viz_data.top_30_category_names)
                  /\ response.out.rows[i] = ExportRow(viz_data.df[k])

\* C12: the 'Others' entry shows the count of 'Artificial Intelligence' when
\* that category is in the table and the computed 'Others' count when it is
\* not; every other entry of the table keeps its count, the top-30 name set
\* is that of the ranked entries, and an 'Others' drill-down or export
\* returns the records outside the top 30.
C12_OverwriteFrame ==
    Visualized =>
        /\ C12_DisplayedOthers
        /\ \A i \in DOMAIN Ranked : Ranked[i].count = Memberships(Ranked[i].category)
        /\ C12_NamesAndRecords

\* a bar click recomputes the drill-down of its chart, once: the callback of
\* that chart answers it, the slot of the other chart stays, and no call
\* comes to be owed
C13_BarClick ==
    \A c \in clients, chart \in Charts :
        clickData'[c][chart] # clickData[c][chart] =>
            /\ response'.client = c
            /\ response'.callback = IF chart = "category" THEN "display_category_click_data"
                                    ELSE "display_pavilion_click_data"
            /\ response'.clickData = clickData'[c][chart]
            /\ IF chart = "category" THEN UNCHANGED selected_pavilion_exhibitors
               ELSE UNCHANGED selected_category_exhibitors
            /\ \A d \in clients : pending'[d] \subseteq pending[d]
            /\ UNCHANGED reruns

\* an export click recomputes nothing
C13_ExportClick ==
    (response' # response /\ response'.callback = "download_selected") =>
        UNCHANGED <<selected_category_exhibitors, selected_pavilion_exhibitors,
                    children, pending, reruns>>

C14_SlotHoldsResult ==
    \A chart \in Charts :
        DrillDown(chart) =>
            LET rows == response.out.rows
            IN /\ DOMAIN SlotOf(chart) = {rows[i].company_name : i \in DOMAIN rows}
               /\ \A name \in DOMAIN SlotOf(chart) :
                     \E i \in DOMAIN rows :
                        rows[i].company_name = name /\ SlotOf(chart)[name] = rows[i]

\* an export answers from the slot of its own chart
C14_ExportReadsOwnSlot ==
    response.callback = "download_selected" =>
        LET slot == SlotOf(response.chart)
            found == SelectSeq(CheckedNames(response.checkbox_values),
                               LAMBDA name : name \in DOMAIN slot)
        IN IF found = <<>> THEN response.out = NoFile
           ELSE /\ response.out.file
                /\ response.out.rows = [i \in DOMAIN found |-> ExportRow(slot[found[i]])]

\* a callback of one chart leaves the slot of the other chart alone; a
\* language click and an export leave both
C14_Frame ==
    /\ response'.callback = "display_category_click_data" =>
          UNCHANGED selected_pavilion_exhibitors
    /\ response'.callback = "display_pavilion_click_data" =>
          UNCHANGED selected_category_exhibitors
    /\ response'.callback \in {"download_selected", "toggle_language"} =>
          UNCHANGED <<selected_category_exhibitors, selected_pavilion_exhibitors>>

\* C14: one last-selection slot per chart; a drill-down replaces the whole
\* slot of its chart with the new result and leaves the other slot
\* unchanged, and an export from a chart reads only that chart's slot.
C14_TwoSlots ==
    /\ [](C14_SlotHoldsResult /\ C14_ExportReadsOwnSlot)
    /\ [][C14_Frame]_vars

\* C14 witness: an export from the category chart returned the record of the
\* category slot while the pavilion slot holds another record under the
\* same name, and the dataset has a record that the category slot lacks
C14_Witness ==
    /\ response.callback = "download_selected"
    /\ response.chart = "category"
    /\ response.out.file
    /\ \E name \in DOMAIN selected_category_exhibitors \cap DOMAIN selected_pavilion_exhibitors :
          /\ selected_category_exhibitors[name] # selected_pavilion_exhibitors[name]
          /\ response.out.rows[1] = ExportRow(selected_category_exhibitors[name])
    /\ \E i \in DOMAIN viz_data.df :
          viz_data.df[i] \notin {selected_category_exhibitors[n] : n \in DOMAIN selected_category_exhibitors}

\* the last callback run was a display callback called without click data
NoClickDisplay ==
    /\ response.callback \in {"display_category_click_data", "display_pavilion_click_data"}
    /\ response.clickData = <<>>

\* C15: a display callback run with no click data returns the placeholder
\* prompt, not a table, keeps the download button hidden and leaves both
\* last-selection slots as they were, whatever the language is.
C15_NoClick ==
    /\ [](NoClickDisplay =>
            /\ response.out.content = "placeholder"
            /\ response.out.display = "none"
            /\ "rows" \notin DOMAIN response.out)
    /\ [][NoClickDisplay' =>
            UNCHANGED <<selected_category_exhibitors, selected_pavilion_exhibitors>>]_vars

\* C15 witness: the pavilion callback ran without click data for a client
\* that had switched to English, while the pavilion slot held the selection
\* of the other client
C15_Witness ==
    /\ NoClickDisplay
    /\ response.callback = "display_pavilion_click_data"
    /\ language[response.client] = "en"
    /\ selected_pavilion_exhibitors # <<>>
    /\ children[response.client].pavilion = Placeholder

\* the dataset is the three records of the example, in some order
IsExample(df) ==
    /\ Len(df) = 3
    /\ \E i, j, k \in DOMAIN df :
          /\ df[i].categories = <<"AI", "Cloud">>
          /\ df[j].categories = <<"AI">>
          /\ df[k].categories = <<>>

\* the entries of the category table for a category
EntriesOf(category) ==
    {i \in DOMAIN viz_data.top_categories : viz_data.top_categories[i].category = category}

\* the count of lines 71-76 taken against a given set of top names
OthersAgainst(names) ==
    Cardinality({i \in DOMAIN viz_data.df : InOthers(viz_data.df[i], names)})

\* C16 as stated: on the three-record example the 'AI' entry has count 2, and
\* against a top set with 'AI' and without 'Cloud' the 'Others' count is 2.
C16_AsStated ==
    (Visualized /\ IsExample(viz_data.df)) =>
        /\ \A i \in EntriesOf("AI") : viz_data.top_categories[i].count = 2
        /\ EntriesOf("AI") # {}
        /\ OthersAgainst({"AI"}) = 2

\* C16 as amended: on the three-record example the 'AI' entry has count 2;
\* the top set holds 'AI' and 'Cloud', the table is AI 2, Cloud 1, Others 1,
\* and against the top set {'AI'} the 'Others' count is 1 as well: only the
\* record without categories is counted.
C16_Example ==
    (Visualized /\ IsExample(viz_data.df)) =>
        /\ viz_data.top_30_category_names = {"AI", "Cloud"}
        /\ viz_data.top_categories = <<[category |-> "AI", count |-> 2],
                                       [category |-> "Cloud", count |-> 1],
                                       [category |-> "Others", count |-> 1]>>
        /\ OthersAgainst({"AI"}) = 1
        /\ OthersAgainst(viz_data.top_30_category_names) = 1

\* C16 witness: the example dataset, with the record without categories first
C16_Witness ==
    /\ Visualized
    /\ IsExample(viz_data.df)
    /\ viz_data.df[1].categories = <<>>
    /\ "categories" \notin DOMAIN file[1]

\* C17: for every category of the category table other than 'Others' the
\* count shown equals the number of records a drill-down on it returns, also
\* when a record names the category more than once.
C17_TableCountIsDrillDownSize ==
    (DrillDown("category") /\ response.clickData[1] # "Others") =>
        \A i \in DOMAIN Ranked :
            Ranked[i].category = response.clickData[1] =>
                Ranked[i].count = Len(response.out.rows)

\* the rows of the table on screen whose checkbox was checked at an export
CheckedRows ==
    Pick(children[response.client][response.chart].rows,
         {i \in DOMAIN response.checkbox_values : response.checkbox_values[i] # <<>>})

\* the last callback run was an export from a table on screen whose
\* drill-down is the one the slot of the chart was last written by
ExportOfCurrent ==
    /\ response.callback = "download_selected"
    /\ OnScreenIsCurrent(response.client, response.chart)
    /\ CheckedRows # <<>>

\* C18: after a drill-down the slot of the chart has one entry for each row
\* of the result, and an export returns, for each checked row, the record
\* displayed in that row, also when records of the result share a
\* company_name.
C18_SlotEntryPerRow ==
    /\ \A chart \in Charts :
          DrillDown(chart) => Cardinality(DOMAIN SlotOf(chart)) = Len(response.out.rows)
    /\ ExportOfCurrent =>
          /\ response.out.file
          /\ response.out.rows = [i \in DOMAIN CheckedRows |-> ExportRow(CheckedRows[i])]

\* the names on the screen of the client of the last callback, for its chart
NamesOnScreen ==
    LET shown == children[response.client][response.chart]
    IN IF shown.content = "table" THEN {shown.rows[i].company_name : i \in DOMAIN shown.rows}
       ELSE {}

\* the checked names of an export that the slot of its chart holds
CheckedInSlot ==
    LET names == CheckedNames(response.checkbox_values)
    IN Pick(names, {i \in DOMAIN names : names[i] \in DOMAIN SlotOf(response.chart)})

\* C19: with two clients interleaved, every row an export returns is the
\* slot's record of a name the client checked on its screen; a checked name
\* that is no longer in the slot is dropped, and the export returns no file
\* when no checked name remains.
C19_SharedSlotExport ==
    response.callback = "download_selected" =>
        /\ \A i \in DOMAIN CheckedInSlot : CheckedInSlot[i] \in NamesOnScreen
        /\ IF CheckedInSlot = <<>> THEN response.out = NoFile
           ELSE /\ response.out.file
                /\ Len(response.out.rows) = Len(CheckedInSlot)
                /\ \A i \in DOMAIN CheckedInSlot :
                      response.out.rows[i] = ExportRow(SlotOf(response.chart)[CheckedInSlot[i]])

\* C19 witness: a client checked two names of its table; the other client's
\* click has since replaced the slot, which holds one of the names with a
\* record that is not on the first client's screen; the export returned
\* that record and dropped the other name
C19_Witness ==
    /\ response.callback = "download_selected"
    /\ Len(CheckedNames(response.checkbox_values)) = 2
    /\ Len(CheckedInSlot) = 1
    /\ response.out.file
    /\ SlotOf(response.chart)[CheckedInSlot[1]]
          \notin SeqToSet(children[response.client][response.chart].rows)
    /\ \E d \in clients \ {response.client} :
          /\ clickData[d][response.chart] # clickData[response.client][response.chart]
          /\ clickData[d][response.chart] # <<>>

====
